---- MODULE Spec2Model ----
(***************************************************************************)
(* Model of parse_atbats_to_excel.py: the ESPN play-by-play extraction     *)
(* (build_atbat_maps, parse_pitch_body, parse_all_pitches,                 *)
(* parse_play_by_play), the inning context search                          *)
(* (nearest_inning_header_text, parse_inning_half_team) and the retrying   *)
(* fetch (fetch_html_via_requests).                                        *)
(*                                                                         *)
(* Python values are tagged records: None, IntV(n) and StrV(s), where a    *)
(* string that is parsed character by character is a sequence of           *)
(* one-character strings and a text that is only searched for words is a   *)
(* sequence of words.                                                      *)
(***************************************************************************)
EXTENDS Integers, Sequences, FiniteSets, TLC

VARIABLES
    \* fetch_html_via_requests
    fpc, attempt, gets, resp, got403, log, outcome,
    \* nearest_inning_header_text, one walk
    node, cpc, cidx, ctext, cctx, csteps,
    \* parse_play_by_play
    doc, pc, idx, atbat_info, body_to_atbat, pitch_map, pitch_summary,
    atbats, pitch_rows, summary

fetchVars == <<fpc, attempt, gets, resp, got403, log, outcome>>
ctxVars == <<node, cpc, cidx, ctext, cctx, csteps>>
parseVars == <<doc, pc, idx, atbat_info, body_to_atbat, pitch_map, pitch_summary,
               atbats, pitch_rows, summary>>
vars == <<fetchVars, ctxVars, parseVars>>

(***************************************************************************)
(* Python values                                                           *)
(***************************************************************************)
None == [tag |-> "none"]
IntV(n) == [tag |-> "int", v |-> n]
StrV(s) == [tag |-> "str", s |-> s]

\* Python truthiness of None / int / str
Truthy(x) ==
    CASE x.tag = "none" -> FALSE
      [] x.tag = "int" -> x.v # 0
      [] x.tag = "str" -> x.s # <<>>

(***************************************************************************)
(* _safe_int: int(str(x).strip()), None on any exception                   *)
(***************************************************************************)
Digits == {"0", "1", "2", "3", "4", "5", "6", "7", "8", "9"}
DigitVal == [c \in Digits |->
                CASE c = "0" -> 0 [] c = "1" -> 1 [] c = "2" -> 2 [] c = "3" -> 3
                  [] c = "4" -> 4 [] c = "5" -> 5 [] c = "6" -> 6 [] c = "7" -> 7
                  [] c = "8" -> 8 [] c = "9" -> 9]

RECURSIVE LStrip(_)
LStrip(s) == IF s # <<>> /\ Head(s) = " " THEN LStrip(Tail(s)) ELSE s

RECURSIVE RStrip(_)
RStrip(s) == IF s # <<>> /\ s[Len(s)] = " " THEN RStrip(SubSeq(s, 1, Len(s) - 1)) ELSE s

Strip(s) == RStrip(LStrip(s))

\* the digits of an int() literal: digits, single underscores only between digits
IsDigitRun(s) ==
    /\ s # <<>>
    /\ s[1] \in Digits
    /\ s[Len(s)] \in Digits
    /\ \A k \in 1..Len(s) : s[k] \in Digits \cup {"_"}
    /\ \A k \in 1..(Len(s) - 1) : ~(s[k] = "_" /\ s[k + 1] = "_")

RECURSIVE DigitRunVal(_, _)
DigitRunVal(s, acc) ==
    IF s = <<>> THEN acc
    ELSE IF Head(s) = "_" THEN DigitRunVal(Tail(s), acc)
    ELSE DigitRunVal(Tail(s), 10 * acc + DigitVal[Head(s)])

_safe_int_str(s) ==
    LET t == Strip(s)
        signed == t # <<>> /\ Head(t) \in {"+", "-"}
        body == IF signed THEN Tail(t) ELSE t
    IN  IF IsDigitRun(body)
        THEN IntV(IF signed /\ Head(t) = "-" THEN 0 - DigitRunVal(body, 0)
                  ELSE DigitRunVal(body, 0))
        ELSE None

\* str(None) = "None" and str(int) are handled without a character walk
_safe_int(x) ==
    CASE x.tag = "none" -> None
      [] x.tag = "int" -> x
      [] x.tag = "str" -> _safe_int_str(x.s)

(***************************************************************************)
(* fetch_html_via_requests                                                 *)
(*                                                                         *)
(* A GET either raises (a timeout, a connection error) or answers with a   *)
(* status code; the text of an answer is identified by the attempt and the *)
(* GET that produced it, an exception by the attempt and the place it was  *)
(* raised.                                                                 *)
(***************************************************************************)
MaxAttempts == 4
LastAttempt == 3
Forbidden == 403
Statuses == {200, 304, 403, 404, 500}

\* requests.Response.raise_for_status raises for 4xx and 5xx
RaisesForStatus(status) == status >= 400 /\ status < 600

IsLastAttemptOff(a) == a = MaxAttempts
\* line 69: if attempt == 3: raise
IsLastAttempt(a) == a = LastAttempt

FetchInit ==
    /\ fpc = "get1"
    /\ attempt = 0
    /\ gets = 0
    /\ resp = None
    /\ got403 = FALSE
    /\ log = <<>>
    /\ outcome = None

\* line 57 and the test of line 58
FetchGet ==
    /\ fpc = "get1"
    /\ \E raises \in BOOLEAN, o \in Statuses :
         /\ gets' = 1
         /\ IF raises
            THEN /\ fpc' = "except"
                 /\ resp' = [tag |-> "exc", attempt |-> attempt, at |-> "get1"]
                 /\ got403' = FALSE
            ELSE /\ resp' = [tag |-> "resp", attempt |-> attempt, get |-> 1, status |-> o]
                 /\ got403' = (o = Forbidden)
                 /\ fpc' = IF o = Forbidden THEN "get2" ELSE "status"
    /\ UNCHANGED <<attempt, log, outcome>>
    /\ UNCHANGED <<ctxVars, parseVars>>

\* lines 60-65: the second GET of an attempt, after a 403
FetchGetAgain ==
    /\ fpc = "get2"
    /\ \E raises \in BOOLEAN, o \in Statuses :
         /\ gets' = gets + 1
         /\ IF raises
            THEN /\ fpc' = "except"
                 /\ resp' = [tag |-> "exc", attempt |-> attempt, at |-> "get2"]
            ELSE /\ resp' = [tag |-> "resp", attempt |-> attempt, get |-> 2, status |-> o]
                 /\ fpc' = "status"
    /\ UNCHANGED <<attempt, got403, log, outcome>>
    /\ UNCHANGED <<ctxVars, parseVars>>

\* lines 66-67: raise_for_status, then return resp.text
FetchReturn ==
    /\ fpc = "status"
    /\ IF RaisesForStatus(resp.status)
       THEN /\ fpc' = "except"
            /\ resp' = [tag |-> "exc", attempt |-> attempt, at |-> "status"]
            /\ UNCHANGED <<log, outcome>>
       ELSE /\ fpc' = "returned"
            /\ outcome' = [tag |-> "text", attempt |-> resp.attempt, get |-> resp.get]
            /\ log' = Append(log, [gets |-> gets, first403 |-> got403, ok |-> TRUE])
            /\ UNCHANGED resp
    /\ UNCHANGED <<attempt, gets, got403>>
    /\ UNCHANGED <<ctxVars, parseVars>>

\* lines 68-73 and the loop header of line 55
FetchExcept ==
    /\ fpc = "except"
    /\ log' = Append(log, [gets |-> gets, first403 |-> got403, ok |-> FALSE])
    /\ IF IsLastAttempt(attempt)
       THEN /\ fpc' = "raised"
            /\ outcome' = resp
            /\ UNCHANGED <<attempt, gets, got403, resp>>
       ELSE IF attempt + 1 < MaxAttempts
            THEN /\ fpc' = "get1"
                 /\ attempt' = attempt + 1
                 /\ gets' = 0
                 /\ got403' = FALSE
                 /\ resp' = None
                 /\ UNCHANGED outcome
            ELSE \* the loop is exhausted: the function ends without a return
                 /\ fpc' = "fell_out"
                 /\ outcome' = None
                 /\ UNCHANGED <<attempt, gets, got403, resp>>
    /\ UNCHANGED <<ctxVars, parseVars>>

FetchNext == FetchGet \/ FetchGetAgain \/ FetchReturn \/ FetchExcept

(***************************************************************************)
(* Inning context: nearest_inning_header_text, parse_inning_half_team      *)
(*                                                                         *)
(* A header text is a sequence of words.  The play's <li> is given by its  *)
(* previous siblings, nearest first, and its ancestors, nearest first.  A  *)
(* sibling is a Tag or another node (a string between two elements); hdr   *)
(* says that a descendant of it carries the class InningHeader or          *)
(* Accordion__header.  An ancestor has its direct h1/h2/h3/header children *)
(* in document order (heads) and the first direct child carrying one of    *)
(* the two classes (hnode, None when there is none).                       *)
(***************************************************************************)
MaxSibs == 2
MaxAncs == 2
MaxHeads == 1

ORDINAL_MAP ==
    [w \in {"1st", "2nd", "3rd", "4th", "5th", "6th", "7th", "8th", "9th", "10th",
            "11th", "12th", "13th", "14th", "15th", "16th", "17th", "18th"} |->
        CASE w = "1st" -> 1 [] w = "2nd" -> 2 [] w = "3rd" -> 3 [] w = "4th" -> 4
          [] w = "5th" -> 5 [] w = "6th" -> 6 [] w = "7th" -> 7 [] w = "8th" -> 8
          [] w = "9th" -> 9 [] w = "10th" -> 10 [] w = "11th" -> 11 [] w = "12th" -> 12
          [] w = "13th" -> 13 [] w = "14th" -> 14 [] w = "15th" -> 15
          [] w = "16th" -> 16 [] w = "17th" -> 17 [] w = "18th" -> 18]

\* words matching \d{1,2}(?:st|nd|rd|th) as written, and under re.I
OrdinalWords == DOMAIN ORDINAL_MAP \cup {"19th", "3th"}
OrdinalWordsI == OrdinalWords \cup {"3RD"}

\* (Top|Bottom) under re.I, and m.group(1).title()
HalfOf(w) ==
    CASE w \in {"Top", "top", "TOP"} -> "Top"
      [] w \in {"Bottom", "bottom", "BOTTOM"} -> "Bottom"
      [] OTHER -> ""

HasHalf(txt) == \E k \in 1..Len(txt) : HalfOf(txt[k]) # ""
HasOrdinal(txt) == \E k \in 1..Len(txt) : txt[k] \in OrdinalWordsI

\* lines 181 and 195: both searches succeed
MatchesInning(txt) == HasHalf(txt) /\ HasOrdinal(txt)

\* a word of the class [A-Za-z.\s-]: no digit in it
InTeamClass(w) == w \notin OrdinalWordsI

\* line 214: the leftmost dash followed, up to the end, by words of the class
TeamStart(txt) ==
    {k \in 1..Len(txt) :
        /\ txt[k] = "-"
        /\ k < Len(txt)
        /\ \A j \in (k + 1)..Len(txt) : InTeamClass(txt[j])}

Min(S) == CHOOSE x \in S : \A y \in S : x <= y

parse_inning_half_team(header_text, away_team, home_team) ==
    LET hs == {k \in 1..Len(header_text) : HalfOf(header_text[k]) # ""}
        half == IF hs = {} THEN None ELSE StrV(<<HalfOf(header_text[Min(hs)])>>)
        os == {k \in 1..Len(header_text) : header_text[k] \in OrdinalWords}
        inn == IF os = {} THEN None
               ELSE IF header_text[Min(os)] \in DOMAIN ORDINAL_MAP
                    THEN IntV(ORDINAL_MAP[header_text[Min(os)]])
                    ELSE None
        ts == TeamStart(header_text)
        team0 == IF ts = {} THEN None
                 ELSE StrV(SubSeq(header_text, Min(ts) + 1, Len(header_text)))
        side == IF half = StrV(<<"Top">>) THEN away_team ELSE home_team
        team == IF ~Truthy(team0) /\ Truthy(half)
                THEN (IF Truthy(side) THEN side ELSE None)
                ELSE team0
    IN  [inning |-> inn, half |-> half, team |-> team]

\* lines 180-186: what one previous sibling yields, None to move on
SiblingText(sib) ==
    IF MatchesInning(sib.txt) THEN StrV(sib.txt)
    ELSE IF sib.hdr /\ sib.txt # <<>> THEN StrV(sib.txt)
    ELSE None

\* lines 192-199: what one ancestor yields, None to climb on
AncestorText(anc) ==
    LET hits == {k \in 1..Len(anc.heads) : MatchesInning(anc.heads[k])}
    IN  IF hits # {} THEN StrV(anc.heads[Min(hits)])
        ELSE anc.hnode

RECURSIVE WalkAncestors(_, _)
WalkAncestors(ancs, k) ==
    IF k > Len(ancs) THEN StrV(<<>>)
    ELSE IF AncestorText(ancs[k]) # None THEN AncestorText(ancs[k])
    ELSE WalkAncestors(ancs, k + 1)

RECURSIVE WalkSiblings(_, _)
WalkSiblings(li, k) ==
    IF k > Len(li.sibs) \/ ~li.sibs[k].istag THEN WalkAncestors(li.ancs, 1)
    ELSE IF SiblingText(li.sibs[k]) # None THEN SiblingText(li.sibs[k])
    ELSE WalkSiblings(li, k + 1)

\* the whole search, as parse_play_by_play calls it
nearest_inning_header_text(li) == WalkSiblings(li, 1)

SeqsUpTo(S, n) == UNION {[1..k -> S] : k \in 0..n}

TopThird == <<"Top", "3rd">>
BottomSeventh == <<"Bottom", "7th", "-", "TOR">>
PlayByPlay == <<"Play", "-", "by", "-", "Play">>
TopPlays == <<"Top", "Plays">>

SibTexts == {TopThird, BottomSeventh, PlayByPlay, <<>>}
HeadTexts == {TopThird, BottomSeventh, PlayByPlay}
SibKinds ==
    {[istag |-> FALSE, txt |-> <<>>, hdr |-> FALSE]}
    \cup {[istag |-> TRUE, txt |-> t, hdr |-> h] : t \in SibTexts, h \in BOOLEAN}
AncKinds ==
    {[heads |-> hs, hnode |-> hn] :
        hs \in SeqsUpTo(HeadTexts, MaxHeads),
        hn \in {None} \cup {StrV(t) : t \in {TopThird, PlayByPlay, TopPlays, <<>>}}}
TeamPairs == {<<None, None>>, <<StrV(<<"NYY">>), StrV(<<"TOR">>)>>}

CtxInit ==
    /\ node \in {[sibs |-> s, ancs |-> a, teams |-> t] :
                    s \in SeqsUpTo(SibKinds, MaxSibs),
                    a \in SeqsUpTo(AncKinds, MaxAncs),
                    t \in TeamPairs}
    /\ cpc = "sib"
    /\ cidx = 1
    /\ ctext = None
    /\ cctx = None
    /\ csteps = 0

\* one turn of the loop of lines 179-187
CtxSibling ==
    /\ cpc = "sib"
    /\ cidx <= Len(node.sibs)
    /\ node.sibs[cidx].istag
    /\ csteps' = csteps + 1
    /\ IF SiblingText(node.sibs[cidx]) # None
       THEN /\ ctext' = SiblingText(node.sibs[cidx])
            /\ cpc' = "found"
            /\ UNCHANGED cidx
       ELSE /\ cidx' = cidx + 1
            /\ UNCHANGED <<ctext, cpc>>
    /\ UNCHANGED <<node, cctx>>
    /\ UNCHANGED <<fetchVars, parseVars>>

\* the loop of lines 179-187 ends: no previous sibling left, or one that is no Tag
CtxLeaveSiblings ==
    /\ cpc = "sib"
    /\ IF cidx > Len(node.sibs) THEN TRUE ELSE ~node.sibs[cidx].istag
    /\ cpc' = "anc"
    /\ cidx' = 1
    /\ UNCHANGED <<node, ctext, cctx, csteps>>
    /\ UNCHANGED <<fetchVars, parseVars>>

\* one turn of the loop of lines 191-200
CtxAncestor ==
    /\ cpc = "anc"
    /\ cidx <= Len(node.ancs)
    /\ csteps' = csteps + 1
    /\ IF AncestorText(node.ancs[cidx]) # None
       THEN /\ ctext' = AncestorText(node.ancs[cidx])
            /\ cpc' = "found"
            /\ UNCHANGED cidx
       ELSE /\ cidx' = cidx + 1
            /\ UNCHANGED <<ctext, cpc>>
    /\ UNCHANGED <<node, cctx>>
    /\ UNCHANGED <<fetchVars, parseVars>>

\* line 201: return ""
CtxNotFound ==
    /\ cpc = "anc"
    /\ cidx > Len(node.ancs)
    /\ ctext' = StrV(<<>>)
    /\ cpc' = "found"
    /\ UNCHANGED <<node, cidx, cctx, csteps>>
    /\ UNCHANGED <<fetchVars, parseVars>>

\* line 380: parse_inning_half_team on the text found
CtxParse ==
    /\ cpc = "found"
    /\ cctx' = parse_inning_half_team(ctext.s, node.teams[1], node.teams[2])
    /\ cpc' = "done"
    /\ UNCHANGED <<node, cidx, ctext, csteps>>
    /\ UNCHANGED <<fetchVars, parseVars>>

CtxNext == CtxSibling \/ CtxLeaveSiblings \/ CtxAncestor \/ CtxNotFound \/ CtxParse

(***************************************************************************)
(* Dictionaries keep insertion order: a sequence of [key, val] entries;    *)
(* assigning to a key that is present keeps its place.                     *)
(***************************************************************************)
DictHas(d, k) == \E n \in 1..Len(d) : d[n].key = k
DictGet(d, k) == IF DictHas(d, k) THEN d[CHOOSE n \in 1..Len(d) : d[n].key = k].val ELSE None
DictPut(d, k, v) ==
    IF DictHas(d, k)
    THEN [n \in 1..Len(d) |-> IF d[n].key = k THEN [key |-> k, val |-> v] ELSE d[n]]
    ELSE Append(d, [key |-> k, val |-> v])

(***************************************************************************)
(* An id attribute is a string, held as its part before a final "-pitches" *)
(* and whether it ends with that suffix; a missing attribute and an empty  *)
(* one are both falsy and are both NoId.                                   *)
(***************************************************************************)
Id(base, sfx) == [tag |-> "id", base |-> base, sfx |-> sfx]
NoId == Id("", FALSE)
IdTruthy(x) == x # None /\ x # NoId
\* lines 340-341: body_id.endswith("-pitches"), body_id[:-8]
EndsWithPitches(x) == x.sfx
StripPitches(x) == Id(x.base, FALSE)

(***************************************************************************)
(* parse_pitch_body                                                        *)
(***************************************************************************)
MinCells == 6
NullSortKey == 9999

\* lines 276-323: the dict of one row
PitchOfRow(tr) ==
    [pitch_no |-> IF tr.icon # None /\ Truthy(tr.icon) THEN _safe_int(tr.icon) ELSE None,
     result |-> tr.result,
     pitch_type |-> tr.pitch_type,
     mph |-> _safe_int(tr.mph),
     zone |-> tr.zone,
     on1b |-> tr.on1b, on2b |-> tr.on2b, on3b |-> tr.on3b,
     field_style |-> tr.field_style]

\* lines 271-274 and 313: rows with fewer than 6 cells are passed over
RECURSIVE CollectRows(_)
CollectRows(trs) ==
    IF trs = <<>> THEN <<>>
    ELSE IF Head(trs).ncells < MinCells THEN CollectRows(Tail(trs))
    ELSE <<PitchOfRow(Head(trs))>> \o CollectRows(Tail(trs))

\* line 325: the sort key
SortKey(r) == IF r.pitch_no = None THEN NullSortKey ELSE r.pitch_no.v

\* list.sort is stable: r goes after every element whose key is <= its own
RECURSIVE InsertSorted(_, _)
InsertSorted(sorted, r) ==
    IF sorted = <<>> THEN <<r>>
    ELSE IF SortKey(sorted[Len(sorted)]) <= SortKey(r) THEN Append(sorted, r)
    ELSE Append(InsertSorted(SubSeq(sorted, 1, Len(sorted) - 1), r), sorted[Len(sorted)])

RECURSIVE StableSort(_, _)
StableSort(rows, acc) ==
    IF rows = <<>> THEN acc ELSE StableSort(Tail(rows), InsertSorted(acc, Head(rows)))

parse_pitch_body(body) == StableSort(CollectRows(body.rows), <<>>)

(***************************************************************************)
(* parse_play_by_play with build_atbat_maps and parse_all_pitches          *)
(*                                                                         *)
(* doc.buttons are the elements matched by the selector of line 232 and    *)
(* doc.bodies those matched by the selector of lines 256 and 333, both in  *)
(* document order; doc.away and doc.home are what parse_game_header_teams  *)
(* returned.  The loops advance one element per step.                      *)
(***************************************************************************)
\* lines 239-250: the info of one header button
InfoOfButton(btn) ==
    [desc |-> IF btn.description # None /\ Truthy(btn.description)
              THEN btn.description ELSE btn.text,
     away_score |-> IF btn.away = None THEN StrV(<<>>) ELSE btn.away,
     home_score |-> IF btn.home = None THEN StrV(<<>>) ELSE btn.home,
     li |-> btn.li,
     body_id |-> btn.controls]

\* lines 233-253
BuildButton ==
    /\ pc = "buttons"
    /\ idx <= Len(doc.buttons)
    /\ LET btn == doc.buttons[idx]
       IN  IF ~IdTruthy(btn.id)
           THEN UNCHANGED <<atbat_info, body_to_atbat>>
           ELSE /\ atbat_info' = DictPut(atbat_info, btn.id, InfoOfButton(btn))
                /\ body_to_atbat' =
                       IF IdTruthy(btn.controls)
                       THEN DictPut(body_to_atbat, btn.controls, btn.id)
                       ELSE body_to_atbat
    /\ idx' = idx + 1
    /\ UNCHANGED <<doc, pc, pitch_map, pitch_summary, atbats, pitch_rows, summary>>
    /\ UNCHANGED <<fetchVars, ctxVars>>

\* line 260: if labeled_by and labeled_by in atbat_info
LabelsAtBat(body) == IdTruthy(body.labelledby) /\ DictHas(atbat_info, body.labelledby)

\* lines 257-264
LinkBody ==
    /\ pc = "bodies"
    /\ idx <= Len(doc.bodies)
    /\ LET body == doc.bodies[idx]
           info == DictGet(atbat_info, body.labelledby)
       IN  IF LabelsAtBat(body)
           THEN /\ body_to_atbat' =
                       IF IdTruthy(body.id)
                       THEN DictPut(body_to_atbat, body.id, body.labelledby)
                       ELSE body_to_atbat
                /\ atbat_info' =
                       IF ~IdTruthy(info.body_id) /\ IdTruthy(body.id)
                       THEN DictPut(atbat_info, body.labelledby,
                                    [info EXCEPT !.body_id = body.id])
                       ELSE atbat_info
           ELSE UNCHANGED <<atbat_info, body_to_atbat>>
    /\ idx' = idx + 1
    /\ UNCHANGED <<doc, pc, pitch_map, pitch_summary, atbats, pitch_rows, summary>>
    /\ UNCHANGED <<fetchVars, ctxVars>>

KeyOfBodyStripFirst(body) ==
    LET atbat_key == IF EndsWithPitches(body.id) THEN StripPitches(body.id)
                     ELSE DictGet(body_to_atbat, body.id)
    IN  IF IdTruthy(atbat_key) THEN atbat_key ELSE body.id
\* lines 339-341 and 347: the key the rows of a body are filed under
KeyOfBody(body) ==
    LET got == DictGet(body_to_atbat, body.id)
        atbat_key == IF ~IdTruthy(got) /\ EndsWithPitches(body.id)
                     THEN StripPitches(body.id) ELSE got
    IN  IF IdTruthy(atbat_key) THEN atbat_key ELSE body.id

\* lines 334-352
ParseBody ==
    /\ pc = "pitches"
    /\ idx <= Len(doc.bodies)
    /\ LET body == doc.bodies[idx]
           rows == parse_pitch_body(body)
           key == KeyOfBody(body)
           old == IF DictHas(pitch_map, key) THEN DictGet(pitch_map, key) ELSE <<>>
           new == [n \in 1..Len(rows) |->
                      [atbat_key |-> key, pitch_no |-> rows[n].pitch_no,
                       result |-> rows[n].result, pitch_type |-> rows[n].pitch_type,
                       mph |-> rows[n].mph, zone |-> rows[n].zone,
                       on1b |-> rows[n].on1b, on2b |-> rows[n].on2b,
                       on3b |-> rows[n].on3b, field_style |-> rows[n].field_style]]
       IN  IF ~IdTruthy(body.id) \/ rows = <<>>
           THEN UNCHANGED pitch_map
           ELSE pitch_map' = DictPut(pitch_map, key, old \o new)
    /\ idx' = idx + 1
    /\ UNCHANGED <<doc, pc, atbat_info, body_to_atbat, pitch_summary, atbats,
                   pitch_rows, summary>>
    /\ UNCHANGED <<fetchVars, ctxVars>>

\* lines 355-361: per key, the "P<n>: <label>" entries of the summary line
SummaryOf(rows) ==
    [tag |-> "summary",
     items |-> [n \in 1..Len(rows) |->
                   [p |-> rows[n].pitch_no,
                    lab |-> IF rows[n].result # None /\ Truthy(rows[n].result)
                            THEN rows[n].result ELSE StrV(<<>>)]]]

\* the end of a loop: the next one starts; after the loop of lines 334-352 the
\* summaries of lines 355-361 are built
Advance ==
    /\ \/ /\ pc = "buttons" /\ idx > Len(doc.buttons)
          /\ pc' = "bodies"
          /\ UNCHANGED pitch_summary
       \/ /\ pc = "bodies" /\ idx > Len(doc.bodies)
          /\ pc' = "pitches"
          /\ UNCHANGED pitch_summary
       \/ /\ pc = "pitches" /\ idx > Len(doc.bodies)
          /\ pc' = "atbats"
          /\ pitch_summary' = [n \in 1..Len(pitch_map) |->
                                  [key |-> pitch_map[n].key,
                                   val |-> SummaryOf(pitch_map[n].val)]]
       \/ /\ pc = "atbats" /\ idx > Len(atbat_info)
          /\ pc' = "rows"
          /\ UNCHANGED pitch_summary
    /\ idx' = 1
    /\ UNCHANGED <<doc, atbat_info, body_to_atbat, pitch_map, atbats, pitch_rows, summary>>
    /\ UNCHANGED <<fetchVars, ctxVars>>

\* line 401: the summary under the at-bat's key, else under its body id, else "";
\* None when the body id is set but has no summary
SequenceOf(atbat_key, body_id) ==
    IF DictHas(pitch_summary, atbat_key) THEN DictGet(pitch_summary, atbat_key)
    ELSE IF IdTruthy(body_id) THEN DictGet(pitch_summary, body_id)
    ELSE StrV(<<>>)

\* lines 393-402
AtBatRecord(atbat_key, info) ==
    LET ctx_text == IF info.li # None THEN nearest_inning_header_text(info.li)
                    ELSE StrV(<<>>)
        ctx == parse_inning_half_team(ctx_text.s, doc.away, doc.home)
    IN  [atbat_key |-> atbat_key,
         inning |-> ctx.inning,
         half |-> ctx.half,
         team |-> ctx.team,
         description |-> info.desc,
         away_score |-> info.away_score,
         home_score |-> info.home_score,
         pitch_sequence |-> SequenceOf(atbat_key, info.body_id)]

\* lines 372-402; .replace on None raises AttributeError, which nothing catches
EmitAtBat ==
    /\ pc = "atbats"
    /\ idx <= Len(atbat_info)
    /\ LET atbat_key == atbat_info[idx].key
           info == atbat_info[idx].val
       IN  IF SequenceOf(atbat_key, info.body_id) = None
           THEN /\ pc' = "raised"
                /\ UNCHANGED <<idx, atbats>>
           ELSE /\ atbats' = Append(atbats, AtBatRecord(atbat_key, info))
                /\ idx' = idx + 1
                /\ UNCHANGED pc
    /\ UNCHANGED <<doc, atbat_info, body_to_atbat, pitch_map, pitch_summary,
                   pitch_rows, summary>>
    /\ UNCHANGED <<fetchVars, ctxVars>>

\* lines 405-418, one key of pitch_map per step
EmitPitchRows ==
    /\ pc = "rows"
    /\ idx <= Len(pitch_map)
    /\ LET k == pitch_map[idx].key
           rows == pitch_map[idx].val
       IN  pitch_rows' = pitch_rows \o
               [n \in 1..Len(rows) |->
                   [rows[n] EXCEPT !.atbat_key =
                        IF IdTruthy(rows[n].atbat_key) THEN rows[n].atbat_key ELSE k]]
    /\ idx' = idx + 1
    /\ UNCHANGED <<doc, pc, atbat_info, body_to_atbat, pitch_map, pitch_summary,
                   atbats, summary>>
    /\ UNCHANGED <<fetchVars, ctxVars>>

\* lines 420-427
Return ==
    /\ pc = "rows"
    /\ idx > Len(pitch_map)
    /\ summary' = [away_team |-> doc.away, home_team |-> doc.home,
                   total_atbats_found |-> Len(atbats),
                   total_pitch_events_found |-> Len(pitch_rows)]
    /\ pc' = "done"
    /\ UNCHANGED <<doc, idx, atbat_info, body_to_atbat, pitch_map, pitch_summary,
                   atbats, pitch_rows>>
    /\ UNCHANGED <<fetchVars, ctxVars>>

(***************************************************************************)
(* Input documents                                                         *)
(***************************************************************************)
MaxElems == 3
MaxPlays == 2
MaxRows == 3

IdWord == <<"a", "b", "c", "d">>
LabelWord == <<"one", "two", "three", "four", "five">>

PlainDesc == StrV(<<"Smith", "singled">>)
ChangeDesc == StrV(<<"Pitching", "Change:", "Smith", "replaces", "Jones">>)
AnnounceDesc == StrV(<<"Pitching:", "Smith">>)
ButtonText == StrV(<<"Jones", "walked", "3", "2">>)

Heading(txt) == [sibs |-> <<[istag |-> TRUE, txt |-> txt, hdr |-> TRUE]>>, ancs |-> <<>>]
LiTop == Heading(TopThird)
LiBottom == Heading(<<"Bottom", "3rd">>)
LiBare == [sibs |-> <<>>, ancs |-> <<>>]

Button(id, controls, description, away, home, li) ==
    [id |-> id, controls |-> controls, description |-> description,
     text |-> ButtonText, away |-> away, home |-> home, li |-> li]

Row(ncells, icon, mph, b, r) ==
    [ncells |-> ncells, icon |-> icon, mph |-> mph,
     result |-> StrV(<<LabelWord[b], LabelWord[r]>>),
     pitch_type |-> StrV(<<"Slider">>), zone |-> None,
     on1b |-> FALSE, on2b |-> FALSE, on3b |-> FALSE, field_style |-> None]

Body(id, labelledby, rows) == [id |-> id, labelledby |-> labelledby, rows |-> rows]

Doc(teams, buttons, bodies) ==
    [away |-> teams[1], home |-> teams[2], buttons |-> buttons, bodies |-> bodies]

\* header buttons and detail containers with every way of naming each other;
\* each container holds a short row and a full one
KeyButtons ==
    {Button(NoId, NoId, PlainDesc, StrV(<<"3">>), StrV(<<"2">>), LiTop)}
    \cup {Button(Id(i, FALSE), c, PlainDesc, StrV(<<"3">>), StrV(<<"2">>), LiTop) :
            i \in {"a", "b"}, c \in {NoId, Id("p", FALSE)}}
KeyBodyKinds ==
    {<<NoId, NoId>>, <<Id("", TRUE), NoId>>}
    \cup {<<i, l>> : i \in {Id("p", FALSE), Id("a", TRUE)}, l \in {NoId, Id("b", FALSE)}}
KeyDoc(bs, ks) ==
    Doc(<<None, None>>, bs,
        [n \in 1..Len(ks) |->
            Body(ks[n][1], ks[n][2],
                 <<Row(MinCells - 1, None, StrV(<<>>), n, 1),
                   Row(MinCells, StrV(<<"1">>), StrV(<<"9", "5">>), n, 2)>>)])
KeyDocs ==
    UNION {{KeyDoc(bs, ks) : bs \in [1..nb -> KeyButtons],
                             ks \in SeqsUpTo(KeyBodyKinds, MaxElems - nb)} :
              nb \in 0..MaxElems}

\* one play whose rows lie in one or two detail containers
RowKinds ==
    {<<MinCells - 1, None, StrV(<<>>)>>}
    \cup {<<MinCells, i, StrV(<<"9", "5">>)>> :
            i \in {None, StrV(<<"1">>), StrV(<<"x">>), StrV(<<"1", "0", "0", "0", "0">>)}}
    \cup {<<MinCells + 1, StrV(<<" ", "3">>), m>> : m \in {StrV(<<>>), StrV(<<"-", "-">>)}}
RowsOf(ks, b) == [n \in 1..Len(ks) |-> Row(ks[n][1], ks[n][2], ks[n][3], b, n)]
RowDoc(ks, cut) ==
    Doc(<<None, None>>,
        <<Button(Id("a", FALSE), Id("p", FALSE), PlainDesc, None, None, LiTop)>>,
        <<Body(Id("p", FALSE), NoId, RowsOf(SubSeq(ks, 1, cut), 1))>>
        \o (IF cut < Len(ks)
            THEN <<Body(Id("q", FALSE), Id("a", FALSE),
                        RowsOf(SubSeq(ks, cut + 1, Len(ks)), 2))>>
            ELSE <<>>))
RowDocs ==
    {RowDoc(p[1], p[2]) :
        p \in {q \in SeqsUpTo(RowKinds, MaxRows) \X (0..MaxRows) : q[2] <= Len(q[1])}}

\* plays without detail containers: descriptions, scores and inning headings
PlayKinds ==
    {<<d, StrV(<<"3">>), StrV(<<"2">>), l>> :
        d \in {PlainDesc, ChangeDesc, AnnounceDesc},
        l \in {None, LiTop, LiBottom}}
    \cup {<<None, StrV(<<"3">>), StrV(<<"2">>), LiBare>>}
    \cup {<<PlainDesc, a, h, LiTop>> :
            a \in {None, StrV(<<"3">>), StrV(<<"x">>)},
            h \in {None, StrV(<<"1", "2">>)}}
PlayDocs ==
    {Doc(t, [n \in 1..Len(ks) |->
                Button(Id(IdWord[n], FALSE), NoId, ks[n][1], ks[n][2], ks[n][3], ks[n][4])],
         <<>>) :
        t \in TeamPairs, ks \in SeqsUpTo(PlayKinds, MaxPlays)}

ParseInit ==
    /\ doc \in KeyDocs \cup RowDocs \cup PlayDocs
    /\ pc = "buttons"
    /\ idx = 1
    /\ atbat_info = <<>>
    /\ body_to_atbat = <<>>
    /\ pitch_map = <<>>
    /\ pitch_summary = <<>>
    /\ atbats = <<>>
    /\ pitch_rows = <<>>
    /\ summary = None

ParseNext ==
    BuildButton \/ LinkBody \/ ParseBody \/ Advance \/ EmitAtBat \/ EmitPitchRows \/ Return

(***************************************************************************)
(* Specifications: each runs one of the three parts and holds the          *)
(* variables of the other two still.                                       *)
(***************************************************************************)
FetchIdle ==
    /\ fpc = "idle" /\ attempt = 0 /\ gets = 0 /\ resp = None
    /\ got403 = FALSE /\ log = <<>> /\ outcome = None
CtxIdle ==
    /\ node = None /\ cpc = "idle" /\ cidx = 1
    /\ ctext = None /\ cctx = None /\ csteps = 0
ParseIdle ==
    /\ doc = None /\ pc = "idle" /\ idx = 1 /\ atbat_info = <<>>
    /\ body_to_atbat = <<>> /\ pitch_map = <<>> /\ pitch_summary = <<>>
    /\ atbats = <<>> /\ pitch_rows = <<>> /\ summary = None

Init == ParseInit /\ FetchIdle /\ CtxIdle
Next == ParseNext
Spec == Init /\ [][Next]_vars

InitFetch == FetchInit /\ CtxIdle /\ ParseIdle
SpecFetch == InitFetch /\ [][FetchNext]_vars

InitCtx == CtxInit /\ FetchIdle /\ ParseIdle
SpecCtx == InitCtx /\ [][CtxNext]_vars

(***************************************************************************)
(* Properties                                                              *)
(***************************************************************************)
Range(f) == {f[n] : n \in DOMAIN f}
Max(S) == CHOOSE x \in S : \A y \in S : x >= y
IsIntOrNull(x) == x.tag \in {"int", "none"}

\* the detail container a pitch record was read from, by the label of its row
SourceBody(r) == CHOOSE b \in 1..Len(doc.bodies) : LabelWord[b] = r.result.s[1]
RowsFrom(b) == {n \in 1..Len(pitch_rows) : SourceBody(pitch_rows[n]) = b}
ValidRows(b) == {n \in 1..Len(doc.bodies[b].rows) : doc.bodies[b].rows[n].ncells >= 6}

\* C1: when parse_play_by_play ends, there is exactly one AtBatRecord per header
\* button, in document order, none dropped.
C1_OneRecordPerContainer ==
    pc \in {"done", "raised"} =>
        /\ Len(atbats) = Len(doc.buttons)
        /\ \A n \in 1..Len(atbats) : atbats[n].atbat_key = doc.buttons[n].id

\* the incoming and outgoing pitcher a description names ("X replaces Y"), the
\* pitcher it announces ("Pitching: X")
ChangeIn(desc) == {k \in 2..(Len(desc.s) - 1) : desc.s[k] = "replaces"}
AnnouncedIn(desc) == {k \in 1..(Len(desc.s) - 1) : desc.s[k] = "Pitching:"}
Announces(desc) == ChangeIn(desc) # {} \/ AnnouncedIn(desc) # {}
Emitted == Range(atbats) \cup Range(pitch_rows) \cup {summary}
KeyOfRecord(r) == <<r.inning, r.half>>

\* C2: a description "... X replaces Y" yields a PitchingChangeRecord with
\* new_pitcher X and old_pitcher Y, and the play itself is attributed to X.
C2_PitchingChange ==
    pc = "done" =>
        \A n \in 1..Len(atbats) :
            LET d == atbats[n].description
            IN  ChangeIn(d) # {} =>
                    LET k == Min(ChangeIn(d))
                    IN  /\ \E r \in Emitted :
                              /\ "new_pitcher" \in DOMAIN r
                              /\ r.new_pitcher = StrV(<<d.s[k - 1]>>)
                              /\ r.old_pitcher = StrV(<<d.s[k + 1]>>)
                        /\ "pitcher" \in DOMAIN atbats[n]
                        /\ atbats[n].pitcher = StrV(<<d.s[k - 1]>>)

\* C3: a play that follows a play of another (inning, half) key in which a pitcher
\* was announced, and that comes before any announcement within its own key, has
\* a pitcher field that is empty or null.
C3_NoInheritedPitcher ==
    pc = "done" =>
        \A n \in 2..Len(atbats) :
            (/\ atbats[n - 1].half # None /\ atbats[n].half # None
             /\ KeyOfRecord(atbats[n - 1]) # KeyOfRecord(atbats[n])
             /\ Announces(atbats[n - 1].description)
             /\ \A m \in 1..n : KeyOfRecord(atbats[m]) = KeyOfRecord(atbats[n])
                                    => ~Announces(atbats[m].description))
            => /\ "pitcher" \in DOMAIN atbats[n]
               /\ atbats[n].pitcher \in {None, StrV(<<>>)}

\* C4: a detail container with K rows of at least 6 cells yields exactly K pitch
\* events and K pitch records, whatever short rows lie among them.
C4_ValidRowsKept ==
    pc \in {"done", "raised"} =>
        \A b \in 1..Len(doc.bodies) :
            /\ Len(parse_pitch_body(doc.bodies[b])) = Cardinality(ValidRows(b))
            /\ Cardinality(RowsFrom(b)) = Cardinality(ValidRows(b))

\* C5: the pitch records of one atbat_key are, in output order, non-decreasing in
\* sequence number, and none with a null number precedes one with a number.
C5_PitchesOrdered ==
    pc = "done" =>
        \A i, j \in 1..Len(pitch_rows) :
            (i < j /\ pitch_rows[i].atbat_key = pitch_rows[j].atbat_key) =>
                /\ pitch_rows[i].pitch_no = None => pitch_rows[j].pitch_no = None
                /\ (pitch_rows[i].pitch_no # None /\ pitch_rows[j].pitch_no # None)
                       => pitch_rows[i].pitch_no.v <= pitch_rows[j].pitch_no.v

AtBatsKeyed(k) == {m \in 1..Len(atbats) : atbats[m].atbat_key = k}

NamesPlay(x) == IdTruthy(x) /\ \E n \in 1..Len(doc.buttons) : doc.buttons[n].id = x
LabelBodies(x) == {n \in 1..Len(doc.bodies) :
                      doc.bodies[n].id = x /\ NamesPlay(doc.bodies[n].labelledby)}
ControlButtons(x) == {n \in 1..Len(doc.buttons) :
                         IdTruthy(doc.buttons[n].id) /\ doc.buttons[n].controls = x}
PlayOfContainer(x) ==
    IF LabelBodies(x) # {} THEN doc.bodies[Max(LabelBodies(x))].labelledby
    ELSE IF ControlButtons(x) # {} THEN doc.buttons[Max(ControlButtons(x))].id
    ELSE None

C8_NumericFields ==
    pc = "done" =>
        /\ \A n \in 1..Len(atbats) :
              IsIntOrNull(atbats[n].away_score) /\ IsIntOrNull(atbats[n].home_score)
        /\ \A n \in 1..Len(pitch_rows) :
              IsIntOrNull(pitch_rows[n].mph) /\ IsIntOrNull(pitch_rows[n].pitch_no)

AllTexts(n) ==
    {n.sibs[k].txt : k \in 1..Len(n.sibs)}
    \cup UNION {Range(n.ancs[k].heads) : k \in 1..Len(n.ancs)}
    \cup {n.ancs[k].hnode.s : k \in {j \in 1..Len(n.ancs) : n.ancs[j].hnode # None}}

\* C7: with no inning heading anywhere around the play, the search ends within
\* one step per sibling and ancestor and the context is all null.
C7_NullContext ==
    (cpc = "done" /\ \A t \in AllTexts(node) : ~MatchesInning(t)) =>
        /\ csteps <= Len(node.sibs) + Len(node.ancs)
        /\ cctx = [inning |-> None, half |-> None, team |-> None]

\* the heading C9 expects: the closest matching previous sibling, else the
\* matching heading of the closest ancestor that has one
MatchingSibs(n) == {k \in 1..Len(n.sibs) : n.sibs[k].istag /\ MatchesInning(n.sibs[k].txt)}
AncMatch(anc) ==
    LET hits == {k \in 1..Len(anc.heads) : MatchesInning(anc.heads[k])}
    IN  IF hits # {} THEN StrV(anc.heads[Min(hits)])
        ELSE IF anc.hnode # None /\ MatchesInning(anc.hnode.s) THEN anc.hnode
        ELSE None
MatchingAncs(n) == {k \in 1..Len(n.ancs) : AncMatch(n.ancs[k]) # None}

\* C9: the text returned is that of the nearest matching heading, siblings before
\* ancestors, whatever lies in between.
C9_NearestMatchWins ==
    cpc = "done" =>
        IF MatchingSibs(node) # {}
        THEN ctext = StrV(node.sibs[Min(MatchingSibs(node))].txt)
        ELSE MatchingAncs(node) # {}
                 => ctext = AncMatch(node.ancs[Min(MatchingAncs(node))])

\* C10: at most 4 attempts of at most 2 GETs, the second only after a 403; the
\* text of the first successful attempt is returned and nothing follows it; the
\* fourth failure is raised; the loop never ends without one or the other.
C10_FetchRetries ==
    /\ attempt + 1 <= 4 /\ Len(log) <= 4
    /\ gets <= 2 /\ (gets = 2 => got403)
    /\ \A n \in 1..Len(log) : log[n].gets <= 2 /\ (log[n].gets = 2 => log[n].first403)
    /\ fpc = "returned" =>
          /\ Len(log) = attempt + 1
          /\ \A n \in 1..Len(log) : log[n].ok <=> n = Len(log)
          /\ resp.status < 400
          /\ outcome = [tag |-> "text", attempt |-> attempt, get |-> gets]
          /\ resp.attempt = attempt /\ resp.get = gets
          /\ ~ENABLED FetchNext
    /\ fpc = "raised" =>
          /\ Len(log) = 4
          /\ \A n \in 1..4 : ~log[n].ok
          /\ outcome.tag = "exc" /\ outcome.attempt = 3
    /\ (Len(log) = 4 /\ \A n \in 1..4 : ~log[n].ok) => fpc = "raised"
    /\ fpc # "fell_out"
    /\ ~ENABLED FetchNext => fpc \in {"returned", "raised"}

C10_Witness ==
    /\ fpc = "returned"
    /\ attempt = 3
    /\ gets = 2

====
